---- MODULE Spec2Model ----
(***************************************************************************)
(* State-machine model of vridge_psvr.py: the PSVR sensor loop that        *)
(* reconciles the 24-bit rolling timestamps, calibrates the gyro bias,     *)
(* drives the AHRS filter and sends head-tracking frames to VRidge.        *)
(*                                                                         *)
(* Units.  The script computes delta = (t_new - t_prev) / 1000000 with     *)
(* true division; the model keeps the numerator, so delta and comptime are *)
(* integers in microseconds and "comptime > 5" is comptime > 5 * USEC.     *)
(* GYRO_FACTOR = (1,1,-1) * k with k irrational; a value that carries the  *)
(* factor is kept as a record that says so instead of a rounded number.    *)
(* The division is Python 3's; under Python 2 the same line would floor.   *)
(***************************************************************************)
EXTENDS Integers, Sequences, FiniteSets, TLC

VARIABLES
    options,    \* the parsed command line: angle, sim, comp
    Sensor,     \* TRUE when a PSVR HID device was opened, FALSE for None
    pc,         \* position of the script
    data,       \* the last Sensor.read(64)
    frame,      \* the last sensor.parse(...)
    time1, time2, delta, comptime, gcomp,
    ahrs,       \* the MadgwickAHRS object
    output,     \* the last frame built, a sequence of bytes
    connections,\* headset, control and ctx: "open" or "released"
    nReads,     \* history: Sensor.read calls
    nDeltas,    \* history: reconciled deltas computed
    nSent,      \* history: headset.send calls
    nRecv,      \* history: headset.recv calls
    recon,      \* history: the raw timestamps of the last reconciliation
    update,     \* history: the arguments of the last ahrs.update_imu call
    log,        \* history: what the current tick of the main loop did
    calib       \* history: the samples the calibration loop summed

vars == <<options, Sensor, pc, data, frame, time1, time2, delta, comptime,
          gcomp, ahrs, output, connections, nReads, nDeltas, nSent, nRecv,
          recon, update, log, calib>>

-----------------------------------------------------------------------------
(* Bounds of the model *)

\* Sensor.read calls of one run (absent reads included), and the frames of
\* a simulated run
MaxReads == 2

(* Program constants *)

\* 1 << 24: the span of the rolling timestamp
WRAP == 16777216
\* microseconds per second, the divisor of every delta
USEC == 1000000
\* "Assume 500us for first sample"
FIRST_DELTA == 500
\* calibration runs until comptime > 5 (seconds)
COMP_SECONDS == 5
\* ahrs = MadgwickAHRS(sampleperiod=0.0005, ...), in microseconds
SAMPLEPERIOD == 500
\* the size given to Padded(...) in the three output structs
PAD == 64
\* GYRO_FACTOR: 1998.0 degrees/second ...
GYRO_RANGE == 1998
\* ... over 1 << 15 raw counts
GYRO_SPAN == 32768

\* data == None: an absent read is the empty tuple, a packet is the pair of
\* its sub-frames at bytes [16:32) and [32:48)
None == <<>>

\* Raw timestamps the sensor delivers: both sides of the 2^24 boundary
\* (16777200, 16777215 -> 5, 20) and the value 0; 20 -> 16777200 is a gap of
\* more than 5 seconds.
Timestamps == {0, 5, 20, 16777200, 16777215}

\* Raw gyro counts (3 x Int16sl)
GyroVals == {<<1, 1, 1>>, <<2, -1, 3>>}

\* Raw accelerometer counts (3 x Int16sl, the top 12 bits used)
AccVals == {<<16, -32, 4112>>}

-----------------------------------------------------------------------------
(* numpy-style arithmetic on 3-vectors *)

VecAdd(a, b) == <<a[1] + b[1], a[2] + b[2], a[3] + b[3]>>
VecMul(a, b) == <<a[1] * b[1], a[2] * b[2], a[3] * b[3]>>
\* v >> 4 on signed integers is the floor of v / 16
VecShr4(a) == <<a[1] \div 16, a[2] \div 16, a[3] \div 16>>

ZeroVec == <<0, 0, 0>>

\* ACC_FACTOR = np.array((1, 1, -1))
ACC_FACTOR == <<1, 1, -1>>

\* The sign vector of GYRO_FACTOR = (1, 1, -1) * k,
\* k = (1998.0 / (1 << 15)) * (pi / 180)
GYRO_FACTOR == <<1, 1, -1>>

\* GyroDegrees as it would be with the same sign on every axis
GyroDegrees_NoFlip(raw) ==
    <<raw[1] * GYRO_RANGE, raw[2] * GYRO_RANGE, raw[3] * GYRO_RANGE>>

\* raw * GYRO_FACTOR without its degrees-to-radians part pi/180: the angular
\* rate of raw counts in degrees/second, as the numerators over GYRO_SPAN
GyroDegrees(raw) ==
    <<raw[1] * GYRO_FACTOR[1] * GYRO_RANGE,
      raw[2] * GYRO_FACTOR[2] * GYRO_RANGE,
      raw[3] * GYRO_FACTOR[3] * GYRO_RANGE>>

\* A position off the origin
position_Moved == <<0, 0, 1>>

\* position = (0,0,0)
position == <<0, 0, 0>>

(***************************************************************************)
(* gcomp.  [counts, scaled, overUs] stands for the vector                  *)
(*    counts * (GYRO_FACTOR * k if scaled else 1) * USEC / overUs          *)
(* so the initial np.array((0,0,0)) and the running sum of raw counts are  *)
(* [counts, FALSE, USEC], and gcomp * GYRO_FACTOR / comptime is            *)
(* [counts * sign, TRUE, comptime].                                        *)
(***************************************************************************)
GcompInit == [counts |-> ZeroVec, scaled |-> FALSE, overUs |-> USEC]

GcompAdd(g, gyro) == [g EXCEPT !.counts = VecAdd(g.counts, gyro)]

GcompFinish(g, ct) ==
    [counts |-> VecMul(g.counts, GYRO_FACTOR), scaled |-> TRUE, overUs |-> ct]

-----------------------------------------------------------------------------
(* The sensor struct *)

SubFrames == [timestamp : Timestamps, gyro : GyroVals, acc : AccVals]

\* A sub-frame slot that a short block ends before or inside: sensor.parse of
\* the slice raises (construct needs all 16 bytes)
Truncated == [timestamp |-> -1, gyro |-> ZeroVec, acc |-> ZeroVec]

\* Blocks of fewer than 32 bytes, and of 32 to 47 bytes.  (A block of 48 to
\* 63 bytes holds both sub-frames and is a packet to the script.)
ShortBlocks ==
    {<<Truncated, Truncated>>} \cup {<<sf, Truncated>> : sf \in SubFrames}

\* What Sensor.read(64) can return
Reads == {None} \cup (SubFrames \X SubFrames) \cup ShortBlocks

\* sensor.parse(data[16:32]) and sensor.parse(data[32:48])
sensor_parse(d, off) == IF off = 16 THEN d[1] ELSE d[2]

NoFrame == [timestamp |-> 0, gyro |-> ZeroVec, acc |-> ZeroVec]

-----------------------------------------------------------------------------
(* Timestamp reconciliation *)

\* Reconcile1 as it would be without the wraparound test
Reconcile1_NoWrap(t1, t2) ==
    [prev |-> t2, delta |-> IF t2 # 0 THEN t1 - t2 ELSE FIRST_DELTA]

\* Reconcile1 as it would be without the first-sample default
Reconcile1_NoDefault(t1, t2) ==
    LET p == IF t1 < t2 THEN t2 - WRAP ELSE t2
    IN  [prev |-> p, delta |-> t1 - p]

\* First sub-frame: t1 is the new timestamp, t2 the retained one.
\*   if time1 < time2: time2 = time2 - (1 << 24)
\*   if time2: delta = (time1 - time2) / 1000000
\*   else:     delta = 500 / 1000000
Reconcile1(t1, t2) ==
    LET p == IF t1 < t2 THEN t2 - WRAP ELSE t2
    IN  [prev |-> p, delta |-> IF p # 0 THEN t1 - p ELSE FIRST_DELTA]

\* Reconcile2 as it would be without the wraparound test
Reconcile2_NoWrap(t2, t1) == [prev |-> t1, delta |-> t2 - t1]

\* Second sub-frame: t2 is the new timestamp, t1 the first sub-frame's.
\*   if time2 < time1: time1 = time1 - (1 << 24)
\*   delta = (time2 - time1) / 1000000
Reconcile2(t2, t1) ==
    LET p == IF t2 < t1 THEN t1 - WRAP ELSE t1
    IN  [prev |-> p, delta |-> t2 - p]

-----------------------------------------------------------------------------
(* Quaternion and the AHRS filter *)

(***************************************************************************)
(* A float is [n, unit]: n halves (unit "half") or n times pi/2 (unit      *)
(* "halfpi").  A quaternion is the tuple (w, x, y, z) of its elements in   *)
(* halves; the unit quaternions with such elements are the ones the model  *)
(* lets the filter produce.                                                *)
(***************************************************************************)
Half(n) == [n |-> n, unit |-> "half"]
HalfPi(n) == [n |-> n, unit |-> "halfpi"]

\* refq = Quaternion(1,0,0,0)
refq == <<2, 0, 0, 0>>

Quats == {refq, <<1, -1, 1, 1>>}

\* np.arctan2(a, b) in units of pi/2, on axis-aligned arguments
arctan2(a, b) ==
    IF a > 0 THEN 1 ELSE IF a < 0 THEN -1 ELSE IF b < 0 THEN 2 ELSE 0

\* np.arcsin(s) in units of pi/2, for s in {-1, 0, 1}
arcsin(s) == s

\* Quaternion.yaw_pitch_roll (pyquaternion), with q[i] = h[i+1] / 2:
\*   yaw   = arctan2(2(q0 q3 - q1 q2), 1 - 2(q2^2 + q3^2))
\*   pitch = arcsin(2(q0 q2 + q3 q1))
\*   roll  = arctan2(2(q0 q1 - q2 q3), 1 - 2(q1^2 + q2^2))
yaw_pitch_roll(h) ==
    << HalfPi(arctan2(h[1] * h[4] - h[2] * h[3], 2 - h[3] * h[3] - h[4] * h[4])),
       HalfPi(arcsin((h[1] * h[3] + h[4] * h[2]) \div 2)),
       HalfPi(arctan2(h[1] * h[2] - h[3] * h[4], 2 - h[2] * h[2] - h[3] * h[3])) >>

\* Quaternion.elements: (w, x, y, z)
elements(h) == <<Half(h[1]), Half(h[2]), Half(h[3]), Half(h[4])>>

NoAhrs == [quaternion |-> <<>>, sampleperiod |-> 0]

\* MadgwickAHRS(sampleperiod=0.0005, beta=0.1, quaternion=refq)
MadgwickAHRS == [quaternion |-> refq, sampleperiod |-> SAMPLEPERIOD]

\* ahrs.update_imu(gyroscope, accelerometer, delta): the objects the call can
\* leave.  The filter integrates over delta and renormalises, so it yields
\* some unit quaternion, and the same one when delta is not positive.
update_imu(a, gyr, acc, dt) ==
    IF dt <= 0 THEN {a}
    ELSE {[a EXCEPT !.quaternion = q] : q \in Quats}

NoUpdate ==
    [n |-> 0, raw |-> ZeroVec, bias |-> GcompInit, scaled |-> FALSE,
     degrees |-> ZeroVec, acc |-> ZeroVec, delta |-> 0]

\* SensorUpdate as it would be if a delta that is not positive were replaced
SensorUpdate_Clamped(u, f, g, d) ==
    [n |-> u.n + 1, raw |-> f.gyro, bias |-> g, scaled |-> TRUE,
     degrees |-> GyroDegrees(f.gyro),
     acc |-> VecMul(VecShr4(f.acc), ACC_FACTOR),
     delta |-> IF d > 0 THEN d ELSE FIRST_DELTA]

\* The arguments of ahrs.update_imu((gyro - gcomp) * GYRO_FACTOR,
\* (acc >> 4) * ACC_FACTOR, delta): the gyro argument is kept as the raw
\* counts, the bias subtracted from them and whether GYRO_FACTOR multiplies
\* the difference; degrees is what that factor makes of the raw counts.
SensorUpdate(u, f, g, d) ==
    [n |-> u.n + 1, raw |-> f.gyro, bias |-> g, scaled |-> TRUE,
     degrees |-> GyroDegrees(f.gyro),
     acc |-> VecMul(VecShr4(f.acc), ACC_FACTOR), delta |-> d]

\* ahrs.update_imu((0, 1, 0), (0, 1, 0)): the simulated sample
SimUpdate(u, a) ==
    [n |-> u.n + 1, raw |-> <<0, 1, 0>>, bias |-> GcompInit, scaled |-> FALSE,
     degrees |-> ZeroVec,
     acc |-> <<0, 1, 0>>, delta |-> a.sampleperiod]

-----------------------------------------------------------------------------
(* The output structs (construct) *)

RECURSIVE Zeros(_)
Zeros(n) == IF n <= 0 THEN <<>> ELSE <<0>> \o Zeros(n - 1)

\* Int32ul: 4 bytes, little-endian
Int32ul(n) ==
    <<n % 256, (n \div 256) % 256, (n \div 65536) % 256, (n \div 16777216) % 256>>

\* Float32l: the IEEE-754 single of the value, little-endian
Float32l(f) ==
    IF f.n = 0 THEN <<0, 0, 0, 0>>
    ELSE IF f.unit = "half" THEN
         CASE f.n = 1  -> <<0, 0, 0, 63>>
           [] f.n = -1 -> <<0, 0, 0, 191>>
           [] f.n = 2  -> <<0, 0, 128, 63>>
           [] f.n = -2 -> <<0, 0, 128, 191>>
    ELSE CASE f.n = 1  -> <<219, 15, 201, 63>>
           [] f.n = -1 -> <<219, 15, 201, 191>>
           [] f.n = 2  -> <<219, 15, 73, 64>>
           [] f.n = -2 -> <<219, 15, 73, 192>>

\* Array(count, Float32l): the elements one after the other
RECURSIVE Array(_, _)
Array(count, xs) ==
    IF count = 0 THEN <<>>
    ELSE Array(count - 1, SubSeq(xs, 1, count - 1)) \o Float32l(xs[count])

\* Padded as it would be if it left the subcon's bytes as they are
Padded_NoFill(length, bytes) == bytes

\* Padded(length, subcon): the subcon's bytes, then zeros up to length
Padded(length, bytes) == bytes \o Zeros(length - Len(bytes))

\* SendRadRotationAndPosition
anglesposition(d) ==
    Int32ul(2) \o Int32ul(3) \o Int32ul(24) \o Padded(PAD, Array(6, d))

\* SendQuaternionRotationAndPosition
quaternionposition(d) ==
    Int32ul(2) \o Int32ul(4) \o Int32ul(24) \o Padded(PAD, Array(7, d))

\* SendPosition
justposition(d) ==
    Int32ul(2) \o Int32ul(5) \o Int32ul(24) \o Padded(PAD, Array(3, d))

\* position, as the floats the struct builds from it
PositionFloats == <<Half(2 * position[1]), Half(2 * position[2]), Half(2 * position[3])>>

\* (y,p,r) = ahrs.quaternion.yaw_pitch_roll; data = tuple((p,y,r)) + position
AngleData(a) ==
    LET ypr == yaw_pitch_roll(a.quaternion)
    IN  <<ypr[2], ypr[1], ypr[3]>> \o PositionFloats

\* QuaternionData as it would be with the elements in their internal order
QuaternionData_Unswapped(a) == elements(a.quaternion) \o PositionFloats

\* (w,x,y,z) = ahrs.quaternion.elements; data = tuple((y,z,x,w)) + position
QuaternionData(a) ==
    LET e == elements(a.quaternion)
    IN  <<e[3], e[4], e[2], e[1]>> \o PositionFloats

\* BuildOutput as it would be if options.angle were not consulted
BuildOutput_AlwaysQuaternion(opts, a) == quaternionposition(QuaternionData(a))

\* The frame of lines 221-229
BuildOutput(opts, a) ==
    IF opts.angle THEN anglesposition(AngleData(a))
    ELSE quaternionposition(QuaternionData(a))

-----------------------------------------------------------------------------
(* The script *)

NoRecon == [sub |-> 0, prev |-> 0, new |-> 0]

NoCalib == [n |-> 0, rates |-> {}]

\* The state at line 134: options parsed, the device opened unless --sim or
\* no PSVR is attached, both channels connected.
Init ==
    /\ options \in [angle : BOOLEAN, sim : BOOLEAN, comp : BOOLEAN]
    /\ Sensor \in IF options.sim THEN {FALSE} ELSE BOOLEAN
    /\ pc = "calib"
    /\ data = None
    /\ frame = NoFrame
    /\ time1 = 0
    /\ time2 = 0
    /\ delta = 0
    /\ comptime = 0
    /\ gcomp = GcompInit
    /\ ahrs = NoAhrs
    /\ output = <<>>
    /\ connections = "open"
    /\ nReads = 0
    /\ nDeltas = 0
    /\ nSent = 0
    /\ nRecv = 0
    /\ recon = NoRecon
    /\ update = NoUpdate
    /\ log = <<>>
    /\ calib = NoCalib

\* CalibRead as it would be if the loop tested the device only
CalibRead_DeviceOnly ==
    /\ pc = "calib"
    /\ Sensor
    /\ nReads < MaxReads
    /\ \E d \in Reads :
         /\ data' = d
         /\ pc' = IF d = None THEN "calib" ELSE "calib1"
    /\ nReads' = nReads + 1
    /\ UNCHANGED <<options, Sensor, frame, time1, time2, delta, comptime,
                   gcomp, ahrs, output, connections, nDeltas, nSent, nRecv,
                   recon, update, log, calib>>

\* while Sensor and options.comp: data = Sensor.read(64);
\* if data == None: continue
CalibRead ==
    /\ pc = "calib"
    /\ Sensor /\ options.comp
    /\ nReads < MaxReads
    /\ \E d \in Reads :
         /\ data' = d
         /\ pc' = IF d = None THEN "calib" ELSE "calib1"
    /\ nReads' = nReads + 1
    /\ UNCHANGED <<options, Sensor, frame, time1, time2, delta, comptime,
                   gcomp, ahrs, output, connections, nDeltas, nSent, nRecv,
                   recon, update, log, calib>>

\* Lines 142-154: the first sub-frame of a calibration packet
CalibSub1 ==
    /\ pc = "calib1"
    /\ sensor_parse(data, 16) # Truncated
    /\ LET f == sensor_parse(data, 16)
           r == Reconcile1(f.timestamp, time2)
       IN  /\ frame' = f
           /\ time1' = f.timestamp
           /\ time2' = r.prev
           /\ delta' = r.delta
           /\ gcomp' = GcompAdd(gcomp, f.gyro)
           /\ comptime' = comptime + r.delta
           /\ recon' = [sub |-> 1, prev |-> time2, new |-> f.timestamp]
           /\ calib' = [n |-> calib.n + 1, rates |-> calib.rates \cup {f.gyro}]
    /\ nDeltas' = nDeltas + 1
    /\ pc' = "calib2"
    /\ UNCHANGED <<options, Sensor, data, ahrs, output, connections, nReads,
                   nSent, nRecv, update, log>>

\* if comptime > 5
CalibDone(ct) == ct > COMP_SECONDS * USEC

\* CalibSub2 as it would be if leaving the loop reset the retained timestamp
CalibSub2_ResetClock ==
    /\ pc = "calib2"
    /\ sensor_parse(data, 32) # Truncated
    /\ LET f == sensor_parse(data, 32)
           r == Reconcile2(f.timestamp, time1)
           sum == GcompAdd(gcomp, f.gyro)
           ct == comptime + r.delta
       IN  /\ frame' = f
           /\ time2' = IF CalibDone(ct) THEN 0 ELSE f.timestamp
           /\ time1' = r.prev
           /\ delta' = r.delta
           /\ comptime' = ct
           /\ gcomp' = IF CalibDone(ct) THEN GcompFinish(sum, ct) ELSE sum
           /\ pc' = IF CalibDone(ct) THEN "ahrs" ELSE "calib"
           /\ recon' = [sub |-> 2, prev |-> time1, new |-> f.timestamp]
           /\ calib' = [n |-> calib.n + 1, rates |-> calib.rates \cup {f.gyro}]
    /\ nDeltas' = nDeltas + 1
    /\ UNCHANGED <<options, Sensor, data, ahrs, output, connections, nReads,
                   nSent, nRecv, update, log>>

\* Lines 156-168: the second sub-frame, then the test that ends calibration
CalibSub2 ==
    /\ pc = "calib2"
    /\ sensor_parse(data, 32) # Truncated
    /\ LET f == sensor_parse(data, 32)
           r == Reconcile2(f.timestamp, time1)
           sum == GcompAdd(gcomp, f.gyro)
           ct == comptime + r.delta
       IN  /\ frame' = f
           /\ time2' = f.timestamp
           /\ time1' = r.prev
           /\ delta' = r.delta
           /\ comptime' = ct
           /\ gcomp' = IF CalibDone(ct) THEN GcompFinish(sum, ct) ELSE sum
           /\ pc' = IF CalibDone(ct) THEN "ahrs" ELSE "calib"
           /\ recon' = [sub |-> 2, prev |-> time1, new |-> f.timestamp]
           /\ calib' = [n |-> calib.n + 1, rates |-> calib.rates \cup {f.gyro}]
    /\ nDeltas' = nDeltas + 1
    /\ UNCHANGED <<options, Sensor, data, ahrs, output, connections, nReads,
                   nSent, nRecv, update, log>>

\* CalibSkip as it would be if the loop could be left at any time
CalibSkip_Always ==
    /\ pc = "calib"
    /\ pc' = "ahrs"
    /\ UNCHANGED <<options, Sensor, data, frame, time1, time2, delta,
                   comptime, gcomp, ahrs, output, connections, nReads,
                   nDeltas, nSent, nRecv, recon, update, log, calib>>

\* The calibration loop is not entered: no device, or --comp not given
CalibSkip ==
    /\ pc = "calib"
    /\ ~(Sensor /\ options.comp)
    /\ pc' = "ahrs"
    /\ UNCHANGED <<options, Sensor, data, frame, time1, time2, delta,
                   comptime, gcomp, ahrs, output, connections, nReads,
                   nDeltas, nSent, nRecv, recon, update, log, calib>>

\* Lines 174-179: refq and the filter object
InitAhrs ==
    /\ pc = "ahrs"
    /\ ahrs' = MadgwickAHRS
    /\ pc' = "main"
    /\ UNCHANGED <<options, Sensor, data, frame, time1, time2, delta,
                   comptime, gcomp, output, connections, nReads, nDeltas,
                   nSent, nRecv, recon, update, log, calib>>

\* while Sensor or options.sim, with options.sim: one simulated update
\* (the loop never ends; the model stops it after MaxReads frames)
MainSim ==
    /\ pc = "main"
    /\ options.sim
    /\ nSent < MaxReads
    /\ LET u == SimUpdate(update, ahrs)
       IN  /\ ahrs' \in update_imu(ahrs, u.raw, u.acc, u.delta)
           /\ update' = u
           /\ log' = <<<<"update", 0>>>>
    /\ pc' = "send"
    /\ UNCHANGED <<options, Sensor, data, frame, time1, time2, delta,
                   comptime, gcomp, output, connections, nReads, nDeltas,
                   nSent, nRecv, recon, calib>>

\* Lines 188-190: data = Sensor.read(64); if data == None: continue
MainRead ==
    /\ pc = "main"
    /\ ~options.sim /\ Sensor
    /\ nReads < MaxReads
    /\ \E d \in Reads :
         /\ data' = d
         /\ pc' = IF d = None THEN "main" ELSE "main1"
         /\ log' = IF d = None THEN log ELSE <<<<"read", 0>>>>
    /\ nReads' = nReads + 1
    /\ UNCHANGED <<options, Sensor, frame, time1, time2, delta, comptime,
                   gcomp, ahrs, output, connections, nDeltas, nSent, nRecv,
                   recon, update, calib>>

\* MainSub1 as it would be if the frame were built right after it
MainSub1_SkipSecond ==
    /\ pc = "main1"
    /\ sensor_parse(data, 16) # Truncated
    /\ LET f == sensor_parse(data, 16)
           r == Reconcile1(f.timestamp, time2)
           u == SensorUpdate(update, f, gcomp, r.delta)
       IN  /\ frame' = f
           /\ time1' = f.timestamp
           /\ time2' = r.prev
           /\ delta' = r.delta
           /\ recon' = [sub |-> 1, prev |-> time2, new |-> f.timestamp]
           /\ ahrs' \in update_imu(ahrs, u.raw, u.acc, u.delta)
           /\ update' = u
           /\ log' = Append(log, <<"update", 16>>)
    /\ nDeltas' = nDeltas + 1
    /\ pc' = "send"
    /\ UNCHANGED <<options, Sensor, data, comptime, gcomp, output,
                   connections, nReads, nSent, nRecv, calib>>

\* Lines 192-204: the first sub-frame and its filter update
MainSub1 ==
    /\ pc = "main1"
    /\ sensor_parse(data, 16) # Truncated
    /\ LET f == sensor_parse(data, 16)
           r == Reconcile1(f.timestamp, time2)
           u == SensorUpdate(update, f, gcomp, r.delta)
       IN  /\ frame' = f
           /\ time1' = f.timestamp
           /\ time2' = r.prev
           /\ delta' = r.delta
           /\ recon' = [sub |-> 1, prev |-> time2, new |-> f.timestamp]
           /\ ahrs' \in update_imu(ahrs, u.raw, u.acc, u.delta)
           /\ update' = u
           /\ log' = Append(log, <<"update", 16>>)
    /\ nDeltas' = nDeltas + 1
    /\ pc' = "main2"
    /\ UNCHANGED <<options, Sensor, data, comptime, gcomp, output,
                   connections, nReads, nSent, nRecv, calib>>

\* Lines 206-214: the second sub-frame and its filter update
MainSub2 ==
    /\ pc = "main2"
    /\ sensor_parse(data, 32) # Truncated
    /\ LET f == sensor_parse(data, 32)
           r == Reconcile2(f.timestamp, time1)
           u == SensorUpdate(update, f, gcomp, r.delta)
       IN  /\ frame' = f
           /\ time2' = f.timestamp
           /\ time1' = r.prev
           /\ delta' = r.delta
           /\ recon' = [sub |-> 2, prev |-> time1, new |-> f.timestamp]
           /\ ahrs' \in update_imu(ahrs, u.raw, u.acc, u.delta)
           /\ update' = u
           /\ log' = Append(log, <<"update", 32>>)
    /\ nDeltas' = nDeltas + 1
    /\ pc' = "send"
    /\ UNCHANGED <<options, Sensor, data, comptime, gcomp, output,
                   connections, nReads, nSent, nRecv, calib>>

\* Send as it would be without the headset.recv() that follows it
Send_NoRecv ==
    /\ pc = "send"
    /\ output' = BuildOutput(options, ahrs)
    /\ nSent' = nSent + 1
    /\ log' = Append(log, <<"send", 0>>)
    /\ pc' = "main"
    /\ UNCHANGED <<options, Sensor, data, frame, time1, time2, delta,
                   comptime, gcomp, ahrs, connections, nReads, nDeltas,
                   nRecv, recon, update, calib>>

\* Lines 221-232: build the frame and headset.send(output)
Send ==
    /\ pc = "send"
    /\ output' = BuildOutput(options, ahrs)
    /\ nSent' = nSent + 1
    /\ log' = Append(log, <<"send", 0>>)
    /\ pc' = "recv"
    /\ UNCHANGED <<options, Sensor, data, frame, time1, time2, delta,
                   comptime, gcomp, ahrs, connections, nReads, nDeltas,
                   nRecv, recon, update, calib>>

\* Line 233: answer = headset.recv(), then back to the loop test
Recv ==
    /\ pc = "recv"
    /\ nRecv' = nRecv + 1
    /\ log' = Append(log, <<"recv", 0>>)
    /\ pc' = "main"
    /\ UNCHANGED <<options, Sensor, data, frame, time1, time2, delta,
                   comptime, gcomp, ahrs, output, connections, nReads,
                   nDeltas, nSent, recon, update, calib>>

\* Lines 235-238: the loop test fails (no device and no simulation), then
\* headset.close(), control.close(), ctx.destroy()
MainExit ==
    /\ pc = "main"
    /\ ~(Sensor \/ options.sim)
    /\ connections' = "released"
    /\ pc' = "done"
    /\ UNCHANGED <<options, Sensor, data, frame, time1, time2, delta,
                   comptime, gcomp, ahrs, output, nReads, nDeltas, nSent,
                   nRecv, recon, update, log, calib>>

\* sensor.parse(...) of a slice the block is too short for raises; nothing
\* catches it and the script ends there (lines 142, 156, 192, 206)
ParseFail ==
    /\ \/ pc \in {"calib1", "main1"} /\ sensor_parse(data, 16) = Truncated
       \/ pc \in {"calib2", "main2"} /\ sensor_parse(data, 32) = Truncated
    /\ pc' = "parse_error"
    /\ UNCHANGED <<options, Sensor, data, frame, time1, time2, delta,
                   comptime, gcomp, ahrs, output, connections, nReads,
                   nDeltas, nSent, nRecv, recon, update, log, calib>>

\* headset.send(output) raises (zmq.ZMQError): the frame was built, nothing
\* catches the exception and lines 235-238 are not reached
SendFail ==
    /\ pc = "send"
    /\ output' = BuildOutput(options, ahrs)
    /\ pc' = "transport_error"
    /\ UNCHANGED <<options, Sensor, data, frame, time1, time2, delta,
                   comptime, gcomp, ahrs, connections, nReads, nDeltas,
                   nSent, nRecv, recon, update, log, calib>>

\* headset.recv() raises: as for send
RecvFail ==
    /\ pc = "recv"
    /\ pc' = "transport_error"
    /\ UNCHANGED <<options, Sensor, data, frame, time1, time2, delta,
                   comptime, gcomp, ahrs, output, connections, nReads,
                   nDeltas, nSent, nRecv, recon, update, log, calib>>

Next ==
    \/ CalibRead
    \/ CalibSub1
    \/ CalibSub2
    \/ CalibSkip
    \/ InitAhrs
    \/ MainSim
    \/ MainRead
    \/ MainSub1
    \/ MainSub2
    \/ Send
    \/ Recv
    \/ MainExit
    \/ ParseFail
    \/ SendFail
    \/ RecvFail

Spec == Init /\ [][Next]_vars

-----------------------------------------------------------------------------
(* Properties *)

\* C1: for consecutive raw timestamps with a non-zero retained one, the
\* reconciled delta is (t_new - t_prev) mod 2^24 microseconds, in both the
\* sub-frame-1 and the sub-frame-2 step; when t_new < t_prev it is
\* t_new + 2^24 - t_prev and strictly positive.
C1_Wraparound ==
    (recon.sub # 0 /\ recon.prev # 0) =>
        /\ delta = (recon.new - recon.prev) % WRAP
        /\ recon.new < recon.prev =>
             (delta = recon.new + WRAP - recon.prev /\ delta > 0)

\* The third sample of 16777200, 16777215, 5, 20 in the main loop: gap 6
C1_Witness ==
    /\ pc = "main2"
    /\ nDeltas = 3
    /\ recon = [sub |-> 1, prev |-> 16777215, new |-> 5]
    /\ delta = 6

\* C2: with the retained timestamp at its initial value, the first
\* reconciled delta of the run is 500 microseconds whatever the first raw
\* timestamp is.
C2_FirstSampleDefault == nDeltas = 1 => delta = FIRST_DELTA

C2_Witness ==
    /\ nDeltas = 1
    /\ recon.sub = 1
    /\ recon.new = 16777215
    /\ delta = FIRST_DELTA

\* C3: no delta computed by the calibration loop or the main loop, for
\* either sub-frame, is negative.
C3_NoNegativeDelta == delta >= 0 /\ update.delta >= 0 /\ comptime >= 0

\* The second sub-frame of a calibration packet wrapped
C3_Witness ==
    /\ pc \in {"calib", "ahrs"}
    /\ recon.sub = 2
    /\ recon.new < recon.prev
    /\ delta > 0

\* Every sample the calibration loop summed had the raw rate r
ConstantRate(r) == calib.n > 0 /\ calib.rates = {r} /\ r # ZeroVec

\* C4: after calibration on a constant non-zero raw rate r, GyroBias is r
\* times the angular-rate-to-radians factor, however many samples were
\* summed per second.  (Both sides are multiples of k; the equation is
\* cross-multiplied by gcomp.overUs.)
C4_CalibrationConvergence ==
    \A r \in GyroVals :
        (gcomp.scaled /\ ConstantRate(r)) =>
            \A i \in 1..3 :
                gcomp.counts[i] * USEC = r[i] * GYRO_FACTOR[i] * gcomp.overUs

\* C5: without --comp the calibration loop is never entered, gcomp is the
\* zero vector in every state and every sensor sample reaches the filter
\* scaled, with the zero vector subtracted.
C5_NoCompensation ==
    ~options.comp =>
        /\ pc \notin {"calib1", "calib2"}
        /\ calib.n = 0
        /\ gcomp = GcompInit
        /\ (update.n > 0 /\ ~options.sim) =>
               (update.scaled /\ update.bias.counts = ZeroVec)

C5_Witness ==
    /\ ~options.comp
    /\ Sensor
    /\ update.n = 2
    /\ update.raw = <<2, -1, 3>>

\* C6 as stated: every frame sent is 64 bytes long in total.
C6_Frame64Bytes == nSent > 0 => Len(output) = 64

\* C6, amended: every frame sent is 76 bytes long: the three 4-byte tags,
\* then the payload area zero-padded to 64 bytes.
C6_Frame76Bytes == nSent > 0 => Len(output) = 3 * 4 + PAD

C6_Witness == nSent > 0 /\ ~options.angle /\ Len(output) = 76

\* The i-th 4-byte field of the payload area of a frame
PayloadField(out, i) == SubSeq(out, 12 + 4 * i - 3, 12 + 4 * i)

\* C7: a frame sent carries version 2 and declared length 24; in angle mode
\* type 3 and (pitch, yaw, roll, 0, 0, 0), otherwise type 4 and
\* (qY, qZ, qX, qW, 0, 0, 0) of the quaternion (w, x, y, z).
C7_FrameLayout ==
    pc = "recv" =>
        LET q == ahrs.quaternion
            ypr == yaw_pitch_roll(q)
            zero == <<0, 0, 0, 0>>
        IN  /\ SubSeq(output, 1, 4) = <<2, 0, 0, 0>>
            /\ SubSeq(output, 9, 12) = <<24, 0, 0, 0>>
            /\ options.angle =>
                 /\ SubSeq(output, 5, 8) = <<3, 0, 0, 0>>
                 /\ PayloadField(output, 1) = Float32l(ypr[2])
                 /\ PayloadField(output, 2) = Float32l(ypr[1])
                 /\ PayloadField(output, 3) = Float32l(ypr[3])
                 /\ \A i \in 4..6 : PayloadField(output, i) = zero
            /\ ~options.angle =>
                 /\ SubSeq(output, 5, 8) = <<4, 0, 0, 0>>
                 /\ PayloadField(output, 1) = Float32l(Half(q[3]))
                 /\ PayloadField(output, 2) = Float32l(Half(q[4]))
                 /\ PayloadField(output, 3) = Float32l(Half(q[2]))
                 /\ PayloadField(output, 4) = Float32l(Half(q[1]))
                 /\ \A i \in 5..7 : PayloadField(output, i) = zero

\* A quaternion frame of an orientation whose elements differ
C7_Witness ==
    /\ pc = "recv"
    /\ ~options.angle
    /\ ahrs.quaternion = <<1, -1, 1, 1>>

\* C8: in a frame sent, every byte of the payload area after its first 24
\* bytes is zero, in quaternion mode too.
C8_ZeroBeyondLength ==
    nSent > 0 => \A i \in (12 + 24 + 1)..Len(output) : output[i] = 0

\* A quaternion frame: the seventh float lies beyond the declared length
C8_Witness ==
    /\ nSent > 0
    /\ ~options.angle
    /\ Len(output) > 12 + 28
    /\ PayloadField(output, 4) # <<0, 0, 0, 0>>

\* C9: on the head-tracking channel sends and receives alternate, starting
\* with a send: a send, a sensor read or a filter update happens only with
\* every earlier frame answered, a receive only with one frame unanswered.
C9_RequestResponse ==
    /\ [](nSent - nRecv \in {0, 1})
    /\ [][ /\ nSent' # nSent => nSent = nRecv
           /\ nRecv' # nRecv => nSent = nRecv + 1
           /\ nReads' # nReads => nSent = nRecv
           /\ update'.n # update.n => nSent = nRecv ]_vars

\* The second frame is out, the first one answered
C9_Witness == pc = "recv" /\ nSent = 2 /\ nRecv = 1

\* What one tick of the main loop does with a packet, in order
TickOrder ==
    << <<"read", 0>>, <<"update", 16>>, <<"update", 32>>, <<"send", 0>>,
       <<"recv", 0>> >>

\* C10: with the real sensor a packet read drives the update of sub-frame
\* [16:32), then the update of sub-frame [32:48), each with the delta
\* reconciled for it, then one send; no send comes between the updates.
C10_TwoUpdatesThenSend ==
    ~options.sim =>
        /\ Len(log) <= Len(TickOrder)
        /\ log = SubSeq(TickOrder, 1, Len(log))
        /\ pc = "main1" => Len(log) = 1
        /\ pc = "main2" =>
             /\ Len(log) = 2
             /\ recon.sub = 1
             /\ update.delta = delta
             /\ update.raw = data[1].gyro
        /\ pc = "send" =>
             /\ Len(log) = 3
             /\ recon.sub = 2
             /\ update.delta = delta
             /\ update.raw = data[2].gyro
        /\ pc = "recv" => Len(log) = 4
        /\ pc \notin {"parse_error", "transport_error"} =>
             update.n = 2 * nSent +
                 (IF pc = "main2" THEN 1 ELSE IF pc = "send" THEN 2 ELSE 0)

\* The second packet of the main loop has been sent
C10_Witness ==
    /\ ~options.sim
    /\ pc = "recv"
    /\ nSent = 2
    /\ update.n = 4

\* The positions of the script inside the calibration loop
CalibPcs == {"calib", "calib1", "calib2"}

\* C11: with calibration active, no filter update is made and no frame is
\* sent before the accumulated time has exceeded 5 s and gcomp is computed;
\* once the calibration loop is left it is not entered again and gcomp is
\* not modified again.
C11_PhaseOrdering ==
    /\ []((Sensor /\ options.comp) =>
            /\ pc \in CalibPcs => (update.n = 0 /\ nSent = 0 /\ ~gcomp.scaled)
            /\ (update.n > 0 \/ nSent > 0 \/ pc \in {"ahrs", "main"}) =>
                 (CalibDone(comptime) /\ gcomp.scaled))
    /\ [][pc \notin CalibPcs => (pc' \notin CalibPcs /\ gcomp' = gcomp)]_vars

\* A frame sent after a completed calibration
C11_Witness == Sensor /\ options.comp /\ calib.n > 0 /\ nSent > 0

\* C12: whatever stops the main loop, the loop test failing or a send or
\* receive that fails, the run has released the head-tracking channel, the
\* control channel and the transport context when it ends.
C12_ReleaseOnStop ==
    pc \in {"done", "transport_error"} => connections = "released"

\* C13: an absent or short read is not fatal in either loop: the block is
\* dropped and the loop polls again, so the script is never inside a tick,
\* nor stopped on a parse error, while data holds such a block.
C13_ShortReadNonFatal ==
    (data = None \/ data \in ShortBlocks) =>
        pc \notin {"calib1", "calib2", "main1", "main2", "parse_error"}

\* C14 as stated: every delta handed to a filter update by the main loop is
\* strictly greater than zero.
C14_PositiveDelta == (~options.sim /\ update.n > 0) => update.delta > 0

\* C14, amended: the main loop hands the reconciled delta to the filter
\* update as it is, a zero delta included; the delta handed over is never
\* negative.
C14_DeltaPassedAsIs ==
    (~options.sim /\ pc \in {"main2", "send"}) =>
        (update.delta = delta /\ update.delta >= 0)

\* A second sub-frame with the timestamp of the first: update called with 0
C14_Witness ==
    /\ ~options.sim
    /\ pc = "send"
    /\ recon.sub = 2
    /\ recon.new = recon.prev
    /\ update.delta = 0

\* C15 as stated: after a completed calibration the first delta of the
\* fusion loop is the 500 microsecond default.
C15_ResetToDefault ==
    (gcomp.scaled /\ pc = "main2" /\ update.n = 1) => delta = FIRST_DELTA

\* C15, amended: a completed calibration leaves the retained timestamp at
\* the raw timestamp of its last sample, and the first delta of the fusion
\* loop is the true gap to it mod 2^24 (the default only if it is 0).
C15_ClockCarriedOver ==
    gcomp.scaled =>
        /\ (update.n = 0 /\ pc \in {"ahrs", "main", "main1"}) =>
               time2 = frame.timestamp
        /\ (update.n = 1 /\ pc = "main2") =>
               delta = IF recon.prev # 0
                       THEN (recon.new - recon.prev) % WRAP
                       ELSE FIRST_DELTA

\* Calibration ended at 16777200, the fusion loop starts at 16777215
C15_Witness ==
    /\ gcomp.scaled
    /\ pc = "main2"
    /\ update.n = 1
    /\ recon = [sub |-> 1, prev |-> 16777200, new |-> 16777215]
    /\ delta = 15

\* C16: the 500 microsecond default is applied to the first sample of the
\* run only; every later first-sub-frame delta is the true gap
\* (t_new - t_prev) mod 2^24, a previous raw timestamp of 0 included.
C16_DefaultOnlyFirst ==
    (recon.sub = 1 /\ nDeltas > 1) => delta = (recon.new - recon.prev) % WRAP

\* The bias-corrected rate (gyro - gcomp) handed to the filter is zero on
\* axis i: gcomp carries the irrational factor k once it is scaled, so the
\* difference of a raw count and a scaled gcomp is zero only if both are.
CorrectedRateZero(u, i) ==
    IF u.bias.scaled THEN u.raw[i] = 0 /\ u.bias.counts[i] = 0
    ELSE u.raw[i] * u.bias.overUs = u.bias.counts[i] * USEC

\* C17: after a calibration on the constant raw rate r, a later sample
\* whose raw rate is r reaches the filter with a zero bias-corrected rate.
C17_OffsetRemoved ==
    \A r \in GyroVals :
        (gcomp.scaled /\ ConstantRate(r) /\ update.n > 0 /\ update.raw = r) =>
            \A i \in 1..3 : CorrectedRateZero(update, i)

\* The command lines that reach the frame build
Configurations == [angle : BOOLEAN, sim : BOOLEAN, comp : BOOLEAN]

\* The type tag of a frame
TypeTag(out) == SubSeq(out, 5, 8)

\* C18 as stated: for each of the layouts 3, 4 and 5 there is a
\* configuration under which the frame sent has that layout.
C18_ThreeLayouts ==
    pc = "recv" =>
        \A t \in {3, 4, 5} :
            \E o \in Configurations : TypeTag(BuildOutput(o, ahrs)) = Int32ul(t)

\* C18, amended: the angle layout (type 3) is sent with --angle and the
\* quaternion layout (type 4) without it; no configuration sends another.
C18_TwoLayouts ==
    pc = "recv" =>
        /\ TypeTag(output) = Int32ul(IF options.angle THEN 3 ELSE 4)
        /\ \A t \in {3, 4} :
             \E o \in Configurations : TypeTag(BuildOutput(o, ahrs)) = Int32ul(t)
        /\ \A o \in Configurations :
             TypeTag(BuildOutput(o, ahrs)) \in {Int32ul(3), Int32ul(4)}

\* An angle frame has been sent
C18_Witness ==
    /\ pc = "recv"
    /\ options.angle
    /\ TypeTag(output) = <<3, 0, 0, 0>>

\* C19: calibration ends at the first packet after which the accumulated
\* time exceeds 5 s, tested once per packet after both sub-frames: at the
\* loop test it has not exceeded 5 s, past the loop it has; and timestamps
\* that do not advance add no time after the first sample, so that with
\* them alone the loop never ends.
C19_CalibrationEnds ==
    (Sensor /\ options.comp /\ update.n = 0) =>
        /\ pc \in {"calib", "calib1"} => ~CalibDone(comptime)
        /\ pc \in {"ahrs", "main", "main1"} => CalibDone(comptime)
        /\ (pc \in CalibPcs \cup {"ahrs"} /\ nDeltas > 1
                /\ recon.new = recon.prev) => delta = 0

\* The script takes its next step whenever it has one
FairSpec == Spec /\ WF_vars(Next)

\* The progress part of C19 within the reads of the model: calibration is
\* left, unless the reads run out with no more than 5 s accumulated
CalibrationProgress ==
    <>(\/ ~(Sensor /\ options.comp)
       \/ pc \notin CalibPcs
       \/ (pc = "calib" /\ nReads = MaxReads /\ ~CalibDone(comptime)))

====
